---- MODULE Spec2Model ----
(***************************************************************************)
(* A model of metabin (src/metabin/__init__.py): the struct-to-ImHex       *)
(* type-code translator chars_to_imhex, the recording packer               *)
(* Packable.pack, the renderer Packable.meta_to_imhex and Packable.append. *)
(*                                                                         *)
(* Python values are modelled as follows.                                  *)
(*   str      a sequence of one-character strings ("10s" is                *)
(*            <<"1","0","s">>), so that len(), indexing and slicing are    *)
(*            those of the code; text the code builds with + and format()  *)
(*            is a TLA+ string built with \o.                              *)
(*   bytes    a sequence of integers 0..255.                               *)
(*   None     for an optional int or str: the empty sequence <<>>, a       *)
(*            present one is the one-element sequence <<v>>.               *)
(*   a value  handed to pack: a record [t, n, x, cs, bs], see PyInt.       *)
(* The interpreter is Python 3 (str and bytes are different types); the    *)
(* platform's C long and byte order, which struct's native mode uses, are  *)
(* chosen in the initial state.                                            *)
(***************************************************************************)
EXTENDS Integers, Sequences, FiniteSets, TLC

VARIABLES
    platform,   \* the build: native size of C long, native byte order
    objs,       \* the objects alive: two Packables, a struct, a function
    call,       \* the last call made: its arguments, the receiver's state
                \* before it, and its outcome (return value or exception)
    ncalls      \* how many calls that change an object were made

vars == <<platform, objs, call, ncalls>>

-----------------------------------------------------------------------------
(* Bounds of the model.                                                    *)

\* Calls that change an object (pack, append, naming) in one behaviour of Spec.
MaxCalls == 3
\* Longest string handed to chars_to_imhex in SpecTranslate.
MaxLen == 3
\* Records already in the Packable before the pack call of SpecCall.
MaxPrior == 1

-----------------------------------------------------------------------------
(* Python built-ins the code uses.                                         *)

None == <<>>
Some(v) == <<v>>

RECURSIVE Join(_)
\* "".join(cs): the text of a str.
Join(cs) == IF cs = <<>> THEN "" ELSE Head(cs) \o Join(Tail(cs))

DigitChar == <<"0", "1", "2", "3", "4", "5", "6", "7", "8", "9">>

RECURSIVE NatStr(_)
NatStr(n) == IF n < 10 THEN DigitChar[n + 1]
             ELSE NatStr(n \div 10) \o DigitChar[(n % 10) + 1]

\* "{}".format(n) of an int.
IntStr(n) == IF n < 0 THEN "-" \o NatStr(0 - n) ELSE NatStr(n)

RECURSIVE Replace(_, _, _)
\* s.replace(old, new) for a one-character old.
Replace(cs, old, new) ==
    IF cs = <<>> THEN <<>>
    ELSE (IF Head(cs) = old THEN new ELSE <<Head(cs)>>)
         \o Replace(Tail(cs), old, new)

-----------------------------------------------------------------------------
(* The type-code table and its translator.                                 *)

imhex_keys ==
    {">", "<", "B", "b", "H", "h", "i", "I", "l", "L", "q", "Q", "s", "S",
     "e", "f", "d"}

imhex_keywords ==
    [k \in imhex_keys |->
        CASE k = ">" -> "be"
          [] k = "<" -> "le"
          [] k = "B" -> "u8"
          [] k = "b" -> "s8"
          [] k = "H" -> "u16"
          [] k = "h" -> "s16"
          [] k = "i" -> "i32"
          [] k = "I" -> "u32"
          [] k = "l" -> "i32"
          [] k = "L" -> "u32"
          [] k = "q" -> "s64"
          [] k = "Q" -> "u64"
          [] k = "s" -> "i32"
          [] k = "S" -> "u32"
          [] k = "e" -> "f16"
          [] k = "f" -> "f32"
          [] k = "d" -> "f64"]

\* The outcome of a call: a returned value, or the exception that left it.
\* ctx is the context the exception's message carries: <<>> when it carries
\* none, <<caller_name, name>> for the error pack re-raises.
\* val is the str a call returns, "" when it returns None or raises.
Returned(v) == [type |-> "return", val |-> v, ctx |-> <<>>]
ReturnedNone == [type |-> "return", val |-> "", ctx |-> <<>>]
Raised(t) == [type |-> t, val |-> "", ctx |-> <<>>]
RaisedIn(t, caller, name) == [type |-> t, val |-> "", ctx |-> <<caller, name>>]

\* imhex_keywords[k]: a dict lookup, KeyError when the key is absent.
Lookup(k) == IF k \in imhex_keys THEN Returned(imhex_keywords[k])
             ELSE Raised("KeyError")

\* chars_to_imhex joining the two tokens with nothing between them.
chars_to_imhex_unspaced(struct_pattern) ==
    IF Len(struct_pattern) = 1
    THEN Lookup(struct_pattern[1])
    ELSE IF Len(struct_pattern) = 2 /\ struct_pattern[1] \in {">", "<"}
    THEN LET a == Lookup(struct_pattern[1])
             b == Lookup(struct_pattern[2])
         IN  IF a.type # "return" THEN a
             ELSE IF b.type # "return" THEN b
             ELSE Returned(a.val \o b.val)
    ELSE Raised("NotImplementedError")

chars_to_imhex(struct_pattern) ==
    IF Len(struct_pattern) = 1
    THEN Lookup(struct_pattern[1])
    ELSE IF Len(struct_pattern) = 2 /\ struct_pattern[1] \in {">", "<"}
    THEN LET a == Lookup(struct_pattern[1])
             b == Lookup(struct_pattern[2])
         IN  IF a.type # "return" THEN a
             ELSE IF b.type # "return" THEN b
             ELSE Returned(a.val \o " " \o b.val)
    ELSE Raised("NotImplementedError")

-----------------------------------------------------------------------------
(* The values handed to pack, and struct.pack of the standard library as   *)
(* the code calls it: one format string, one value.                        *)
(*                                                                         *)
(* A value is [t, n, x, cs, bs]: t its Python type; for an int n is the    *)
(* number; for a float the number is n * 2^x; for a str cs holds its       *)
(* characters; for bytes bs holds its bytes. Unused fields are 0 or <<>>.  *)

PyNone == [t |-> "NoneType", n |-> 0, x |-> 0, cs |-> <<>>, bs |-> <<>>]
PyInt(n) == [t |-> "int", n |-> n, x |-> 0, cs |-> <<>>, bs |-> <<>>]
PyFloat(n, x) == [t |-> "float", n |-> n, x |-> x, cs |-> <<>>, bs |-> <<>>]
PyStr(cs) == [t |-> "str", n |-> 0, x |-> 0, cs |-> cs, bs |-> <<>>]
PyBytes(bs) == [t |-> "bytes", n |-> 0, x |-> 0, cs |-> <<>>, bs |-> bs]

RECURSIVE Pow2(_)
Pow2(k) == IF k = 0 THEN 1 ELSE 2 * Pow2(k - 1)

RECURSIVE Reverse(_)
Reverse(s) == IF s = <<>> THEN <<>> ELSE Reverse(Tail(s)) \o <<Head(s)>>

RECURSIVE Zeros(_)
Zeros(k) == IF k <= 0 THEN <<>> ELSE <<0>> \o Zeros(k - 1)

RECURSIVE LittleDigits(_, _)
\* The w low base-256 digits of n >= 0, least significant first.
LittleDigits(n, w) ==
    IF w = 0 THEN <<>> ELSE <<n % 256>> \o LittleDigits(n \div 256, w - 1)

\* The w bytes of n in two's complement, least significant first.
TwosComplement(n, w) ==
    IF n >= 0 THEN LittleDigits(n, w)
    ELSE LET d == LittleDigits((0 - n) - 1, w)
         IN  [i \in 1..w |-> 255 - d[i]]

\* Whether n fits w bytes. The model's integers are below 2^31 in size, so a
\* width of 4 or more is exceeded only by a negative number, unsigned.
FitsInt(n, w, signed) ==
    IF w >= 4 THEN signed \/ n >= 0
    ELSE IF signed THEN (0 - Pow2(8 * w - 1)) <= n /\ n < Pow2(8 * w - 1)
    ELSE 0 <= n /\ n < Pow2(8 * w)

RECURSIVE BitLength(_)
BitLength(a) == IF a = 0 THEN 0 ELSE 1 + BitLength(a \div 2)

RECURSIVE Bits(_, _)
\* The k low bits of a >= 0, most significant first.
Bits(a, k) == IF k = 0 THEN <<>> ELSE Bits(a \div 2, k - 1) \o <<a % 2>>

RECURSIVE BitsToBytes(_)
\* Groups of eight bits, most significant first, as bytes.
BitsToBytes(bits) ==
    IF bits = <<>> THEN <<>>
    ELSE <<128 * bits[1] + 64 * bits[2] + 32 * bits[3] + 16 * bits[4]
           + 8 * bits[5] + 4 * bits[6] + 2 * bits[7] + bits[8]>>
         \o BitsToBytes(SubSeq(bits, 9, Len(bits)))

\* The IEEE 754 layout of the three float formats.
FloatLayout(c) ==
    CASE c = "e" -> [ebits |-> 5, fbits |-> 10, bias |-> 15]
      [] c = "f" -> [ebits |-> 8, fbits |-> 23, bias |-> 127]
      [] c = "d" -> [ebits |-> 11, fbits |-> 52, bias |-> 1023]

\* n * 2^x, n # 0, rounded to format c (to nearest, ties to even): its binary
\* exponent e and the fbits bits of its fraction.
FloatRounded(c, n, x) ==
    LET L == FloatLayout(c)
        a == IF n < 0 THEN 0 - n ELSE n
        k == BitLength(a) - 1
    IN  IF k <= L.fbits
        THEN [e |-> x + k, frac |-> Bits(a, k) \o Zeros(L.fbits - k)]
        ELSE LET unit == Pow2(k - L.fbits)
                 q == a \div unit
                 r == a % unit
                 up == 2 * r > unit \/ (2 * r = unit /\ q % 2 = 1)
                 sig == IF up THEN q + 1 ELSE q
             IN  IF sig = Pow2(L.fbits + 1)
                 THEN [e |-> x + k + 1, frac |-> Zeros(L.fbits)]
                 ELSE [e |-> x + k, frac |-> Bits(sig, L.fbits)]

\* Whether n * 2^x is beyond the range of format c.
FloatOverflows(c, n, x) ==
    n # 0 /\ FloatRounded(c, n, x).e > FloatLayout(c).bias

\* The bytes, most significant first, of n * 2^x in format c; the model's
\* floats are zero or normal in every format. inf: store infinity, which is
\* what a native "f" holds of a double beyond its range.
FloatBytes(c, n, x, inf) ==
    LET L == FloatLayout(c)
        sign == IF n < 0 THEN <<1>> ELSE <<0>>
        R == FloatRounded(c, n, x)
    IN  BitsToBytes(
            IF n = 0 THEN Zeros(1 + L.ebits + L.fbits)
            ELSE IF inf
            THEN sign \o Bits(Pow2(L.ebits) - 1, L.ebits) \o Zeros(L.fbits)
            ELSE sign \o Bits(R.e + L.bias, L.ebits) \o R.frac)

\* The format characters of struct that the model's patterns can hold, with
\* the type each packs and its size in standard mode. "S" is none of them.
struct_chars == {"b", "B", "h", "H", "i", "I", "l", "L", "q", "Q",
                 "e", "f", "d", "s"}

StandardSize(c) ==
    CASE c \in {"b", "B", "s"} -> 1
      [] c \in {"h", "H", "e"} -> 2
      [] c \in {"i", "I", "l", "L", "f"} -> 4
      [] c \in {"q", "Q", "d"} -> 8

\* Native mode (no prefix) uses the C compiler's sizes: long is 4 or 8.
NativeSize(c, plat) == IF c \in {"l", "L"} THEN plat.long ELSE StandardSize(c)

Digits == {"0", "1", "2", "3", "4", "5", "6", "7", "8", "9"}

DigitValue(c) == CHOOSE d \in 0..9 : DigitChar[d + 1] = c

RECURSIVE FormatOK(_, _)
\* Whether struct accepts the format after its prefix: format characters,
\* each after an optional repeat count. seen: digits wait for their character.
FormatOK(cs, seen) ==
    IF cs = <<>> THEN ~seen
    ELSE IF Head(cs) \in Digits THEN FormatOK(Tail(cs), TRUE)
    ELSE Head(cs) \in struct_chars /\ FormatOK(Tail(cs), FALSE)

RECURSIVE ParseItems(_, _, _)
\* The items of an accepted format: each a format character c and its repeat
\* count k (1 when none is written).
ParseItems(cs, num, seen) ==
    IF cs = <<>> THEN <<>>
    ELSE IF Head(cs) \in Digits
    THEN ParseItems(Tail(cs), 10 * num + DigitValue(Head(cs)), TRUE)
    ELSE <<[c |-> Head(cs), k |-> IF seen THEN num ELSE 1]>>
         \o ParseItems(Tail(cs), 0, FALSE)

RECURSIVE ItemsWanted(_)
\* How many values a format packs: one per "s" item, k per other item.
ItemsWanted(items) ==
    IF items = <<>> THEN 0
    ELSE (IF Head(items).c = "s" THEN 1 ELSE Head(items).k)
         + ItemsWanted(Tail(items))

\* What struct.pack leaves: bytes, or an exception.
Packed(bs) == [type |-> "return", val |-> bs]
PackFailed(t) == [type |-> t, val |-> <<>>]

\* One value under one format character c. native: no prefix was given;
\* big: the byte order is big-endian.
PackItem(c, k, value, native, big, plat) ==
    LET w == IF native THEN NativeSize(c, plat) ELSE StandardSize(c)
        order(bs) == IF big THEN bs ELSE Reverse(bs)
    IN  CASE c = "s" ->
               IF value.t # "bytes" THEN PackFailed("struct.error")
               ELSE Packed(SubSeq(value.bs \o Zeros(k), 1, k))
          [] c \in {"e", "f", "d"} ->
               \* An int is converted to a float first; struct reports an
               \* int beyond the range as its own error, a float as
               \* OverflowError, and a native "f" stores infinity.
               IF value.t \notin {"int", "float"}
               THEN PackFailed("struct.error")
               ELSE IF ~FloatOverflows(c, value.n, value.x)
               THEN Packed(order(FloatBytes(c, value.n, value.x, FALSE)))
               ELSE IF c = "f" /\ native
               THEN Packed(order(FloatBytes(c, value.n, value.x, TRUE)))
               ELSE IF value.t = "int" THEN PackFailed("struct.error")
               ELSE PackFailed("OverflowError")
          [] OTHER ->
               IF value.t # "int" THEN PackFailed("struct.error")
               ELSE IF ~FitsInt(value.n, w, c \in {"b", "h", "i", "l", "q"})
               THEN PackFailed("struct.error")
               ELSE Packed(order(Reverse(TwosComplement(value.n, w))))

RECURSIVE PackItems(_, _, _, _, _)
\* The items in order; the one that takes the value packs it, an item
\* repeated zero times packs nothing.
PackItems(items, value, native, big, plat) ==
    IF items = <<>> THEN Packed(<<>>)
    ELSE LET it == Head(items)
             one == IF it.c # "s" /\ it.k = 0 THEN Packed(<<>>)
                    ELSE PackItem(it.c, it.k, value, native, big, plat)
             rest == PackItems(Tail(items), value, native, big, plat)
         IN  IF one.type # "return" THEN one
             ELSE IF rest.type # "return" THEN rest
             ELSE Packed(one.val \o rest.val)

\* struct.pack(pattern, value).
struct_pack(pattern, value, plat) ==
    LET prefixed == pattern # <<>> /\ pattern[1] \in {"<", ">"}
        format == IF prefixed THEN Tail(pattern) ELSE pattern
        items == ParseItems(format, 0, FALSE)
        big == IF prefixed THEN pattern[1] = ">" ELSE plat.order = "big"
    IN  IF ~FormatOK(format, FALSE) THEN PackFailed("struct.error")
        ELSE IF ItemsWanted(items) # 1 THEN PackFailed("struct.error")
        ELSE PackItems(items, value, ~prefixed, big, plat)

-----------------------------------------------------------------------------
(* The classes.                                                            *)

\* MetaBinFunction() and MetaBinStruct(): name is None until the caller sets it.
MetaBinFunction == [name |-> None, metas |-> <<>>]
MetaBinStruct == [name |-> None, metas |-> <<>>]

\* Packable().
Packable == [chunks |-> <<>>, metas |-> <<>>, bad_keys |-> <<>>,
             exceptions |-> <<>>]

\* hasattr(obj, attr).
hasattr(obj, attr) == attr \in DOMAIN obj

\* Packable.meta_to_imhex(meta). A value other than None must have a replace
\* method taking two str: an int or a float has none (AttributeError), and
\* that of bytes takes bytes (TypeError).
meta_to_imhex(meta) ==
    LET token == chars_to_imhex(meta.pattern)
        line == token.val \o " " \o meta.name
        counted == IF meta.count # None
                   THEN line \o "[" \o IntStr(meta.count[1]) \o "]"
                   ELSE line
    IN  IF token.type # "return" THEN token
        ELSE IF meta.value.t = "NoneType" THEN Returned(counted \o ";")
        ELSE IF meta.value.t = "str"
        THEN Returned(counted \o " @ \""
                      \o Join(Replace(meta.value.cs, "\n", <<"\\", "n">>))
                      \o "\"" \o ";")
        ELSE IF meta.value.t = "bytes" THEN Raised("TypeError")
        ELSE Raised("AttributeError")

\* pack without its early return: a record with a count is packed too.
pack_counted_too(self, pattern, value, name, count, caller_name, plat) ==
    LET meta == [pattern |-> pattern, value |-> value, name |-> name,
                 count |-> count]
        recorded == [self EXCEPT !.metas = Append(@, meta)]
        chunk == struct_pack(pattern, value, plat)
    IN  IF chunk.type = "return"
        THEN [self |-> [recorded EXCEPT !.chunks = Append(@, chunk.val)],
              result |-> ReturnedNone]
        ELSE IF chunk.type = "struct.error"
        THEN [self |-> recorded,
              result |-> RaisedIn("struct.error", caller_name, name)]
        ELSE [self |-> recorded, result |-> Raised(chunk.type)]

\* self.pack(pattern, value, name, count), called from the function
\* caller_name: the Packable afterwards and how the call ended.
pack(self, pattern, value, name, count, caller_name, plat) ==
    LET meta == [pattern |-> pattern, value |-> value, name |-> name,
                 count |-> count]
        recorded == [self EXCEPT !.metas = Append(@, meta)]
        chunk == struct_pack(pattern, value, plat)
    IN  IF count # None
        THEN [self |-> recorded, result |-> ReturnedNone]
        ELSE IF chunk.type = "return"
        THEN [self |-> [recorded EXCEPT !.chunks = Append(@, chunk.val)],
              result |-> ReturnedNone]
        ELSE IF chunk.type = "struct.error"
        THEN [self |-> recorded,
              result |-> RaisedIn("struct.error", caller_name, name)]
        ELSE [self |-> recorded, result |-> Raised(chunk.type)]

\* append refusing only an argument whose name is set.
append_unless_named(self, packable) ==
    IF hasattr(packable, "name") /\ packable.name # None
    THEN [self |-> self, result |-> Raised("TypeError")]
    ELSE IF ~hasattr(packable, "chunks")
    THEN [self |-> self, result |-> Raised("AttributeError")]
    ELSE [self |-> [self EXCEPT !.chunks = @ \o packable.chunks],
          result |-> Raised("AttributeError")]

\* self.append(packable): the receiver afterwards and how the call ended.
\* Reading self.lines raises AttributeError, a Packable has no lines, after
\* self.chunks was extended.
append(self, packable) ==
    IF hasattr(packable, "name")
    THEN [self |-> self, result |-> Raised("TypeError")]
    ELSE IF ~hasattr(packable, "chunks")
    THEN [self |-> self, result |-> Raised("AttributeError")]
    ELSE LET extended == [self EXCEPT !.chunks = @ \o packable.chunks]
         IN  IF ~hasattr(self, "lines")
             THEN [self |-> extended, result |-> Raised("AttributeError")]
             ELSE [self |-> [extended EXCEPT !.lines = @ \o packable.lines],
                   result |-> ReturnedNone]

-----------------------------------------------------------------------------
(* The inputs.                                                             *)

Platforms == [long : {4, 8}, order : {"little", "big"}]

Packables == {"P1", "P2"}
Containers == {"S", "F"}

\* The primitive letters of the table and its endianness markers.
Markers == {">", "<"}
Letters == imhex_keys \ Markers

\* The TypeCodes: an optional marker, then one letter.
TypeCodes == {<<c>> : c \in Letters}
             \cup {<<m, c>> : m \in Markers, c \in Letters}

\* Patterns that are no TypeCode: a counted byte string, two fields, a letter
\* outside the table.
OtherPatterns == {<<"1", "0", "s">>, <<"H", "H">>, <<"z">>}

\* 1, -1, 1000, 70000, 1.5, 65536.0, 2.0**128, "a\nb", b"ab" and None.
Values == {PyInt(1), PyInt(-1), PyInt(1000), PyInt(70000),
           PyFloat(3, -1), PyFloat(1, 16), PyFloat(1, 128),
           PyStr(<<"a", "\n", "b">>), PyBytes(<<97, 98>>), PyNone}

Names == {"version", "payload"}
Counts == {None, Some(16)}
Callers == {"write_header"}

\* The pack calls of Spec: one that packs, one whose size is the platform's,
\* one out of range, one float beyond its format, one array, one with text.
SomePacks ==
    { [pattern |-> <<"H">>, value |-> PyInt(1000), name |-> "version",
       count |-> None],
      [pattern |-> <<"l">>, value |-> PyInt(-1), name |-> "offset",
       count |-> None],
      [pattern |-> <<"B">>, value |-> PyInt(300), name |-> "flags",
       count |-> None],
      [pattern |-> <<">", "e">>, value |-> PyFloat(1, 16), name |-> "scale",
       count |-> None],
      [pattern |-> <<"B">>, value |-> PyNone, name |-> "payload",
       count |-> Some(16)],
      [pattern |-> <<"s">>, value |-> PyStr(<<"a", "\n", "b">>),
       name |-> "title", count |-> Some(3)] }

\* The characters of the strings handed to chars_to_imhex.
Alphabet == imhex_keys \cup {"z", "1", "0"}

RECURSIVE StringsUpTo(_)
StringsUpTo(k) ==
    IF k = 0 THEN {<<>>}
    ELSE LET shorter == StringsUpTo(k - 1)
         IN  shorter \cup {Append(cs, c) : cs \in shorter, c \in Alphabet}

-----------------------------------------------------------------------------
(* The calls.                                                              *)

NoCall == [op |-> "none"]

Fresh == [o \in Packables \cup Containers |->
            IF o \in Packables THEN Packable
            ELSE IF o = "S" THEN MetaBinStruct ELSE MetaBinFunction]

Init ==
    /\ platform \in Platforms
    /\ objs = Fresh
    /\ call = NoCall
    /\ ncalls = 0

\* objs[p].pack(a.pattern, a.value, a.name, a.count) from caller.
Pack(p, a, caller) ==
    LET r == pack(objs[p], a.pattern, a.value, a.name, a.count, caller,
                  platform)
    IN  /\ ncalls < MaxCalls
        /\ objs' = [objs EXCEPT ![p] = r.self]
        /\ call' = [op |-> "pack", self |-> p, meta |-> a, caller |-> caller,
                    before |-> objs[p], result |-> r.result]
        /\ ncalls' = ncalls + 1
        /\ UNCHANGED platform

\* objs[p].append(objs[q]).
Append_(p, q) ==
    LET r == append(objs[p], objs[q])
    IN  /\ ncalls < MaxCalls
        /\ objs' = [objs EXCEPT ![p] = r.self]
        /\ call' = [op |-> "append", self |-> p, arg |-> q,
                    before |-> objs[p], arg_before |-> objs[q],
                    result |-> r.result]
        /\ ncalls' = ncalls + 1
        /\ UNCHANGED platform

\* objs[c].name = name, the caller naming a struct or a function.
SetName(c, name) ==
    /\ ncalls < MaxCalls
    /\ objs' = [objs EXCEPT ![c].name = Some(name)]
    /\ call' = [op |-> "set_name", self |-> c]
    /\ ncalls' = ncalls + 1
    /\ UNCHANGED platform

\* Packable.meta_to_imhex(objs[p].metas[i]).
Render(p, i) ==
    /\ call' = [op |-> "meta_to_imhex", self |-> p, index |-> i,
                meta |-> objs[p].metas[i],
                result |-> meta_to_imhex(objs[p].metas[i])]
    /\ UNCHANGED <<platform, objs, ncalls>>

\* chars_to_imhex(struct_pattern).
Translate(struct_pattern) ==
    /\ call' = [op |-> "chars_to_imhex", struct_pattern |-> struct_pattern,
                result |-> chars_to_imhex(struct_pattern)]
    /\ UNCHANGED <<platform, objs, ncalls>>

-----------------------------------------------------------------------------
(* Spec: any sequence of pack, append and naming calls on two Packables, a *)
(* struct and a function.                                                  *)

PackSome == \E p \in Packables, a \in SomePacks, c \in Callers : Pack(p, a, c)
AppendAny == \E p \in Packables, q \in Packables \cup Containers : Append_(p, q)
NameAny == \E c \in Containers : SetName(c, "Header")

Next == PackSome \/ AppendAny \/ NameAny

Spec == Init /\ [][Next]_vars

-----------------------------------------------------------------------------
(* SpecCall: one pack call, with any pattern, value, name and count, on a  *)
(* Packable that earlier pack calls filled, and the rendering of what it   *)
(* holds.                                                                  *)

RECURSIVE PackedUpTo(_, _)
\* The Packables that up to k of the pack calls of SomePacks leave.
PackedUpTo(k, plat) ==
    IF k = 0 THEN {Packable}
    ELSE LET fewer == PackedUpTo(k - 1, plat)
         IN  fewer \cup
             {pack(o, a.pattern, a.value, a.name, a.count, c, plat).self :
                 o \in fewer, a \in SomePacks, c \in Callers}

InitCall ==
    /\ platform \in Platforms
    /\ \E o \in PackedUpTo(MaxPrior, platform) :
           objs = [Fresh EXCEPT !["P1"] = o]
    /\ call = NoCall
    /\ ncalls = 0

AllPacks == [pattern : TypeCodes \cup OtherPatterns, value : Values,
             name : Names, count : Counts]

PackOnce == /\ ncalls = 0
            /\ \E a \in AllPacks, c \in Callers : Pack("P1", a, c)
RenderAny == \E i \in 1..Len(objs["P1"].metas) : Render("P1", i)

NextCall == PackOnce \/ RenderAny

SpecCall == InitCall /\ [][NextCall]_vars

-----------------------------------------------------------------------------
(* SpecTranslate: chars_to_imhex, called any number of times on a string   *)
(* of up to MaxLen characters.                                             *)

InitTranslate ==
    /\ platform \in Platforms
    /\ objs = Fresh
    /\ \E cs \in StringsUpTo(MaxLen) :
           call = [op |-> "argument", struct_pattern |-> cs]
    /\ ncalls = 0

TranslateIt == Translate(call.struct_pattern)

NextTranslate == TranslateIt

SpecTranslate == InitTranslate /\ [][NextTranslate]_vars

-----------------------------------------------------------------------------
(* What the claims speak of.                                               *)

\* The records of metas that have no count.
Uncounted(metas) == SelectSeq(metas, LAMBDA m : m.count = None)

\* Whether struct.pack can serialize the record's value under its pattern.
Serializable(m) == struct_pack(m.pattern, m.value, platform).type = "return"

\* The width in bytes of an annotation type.
TypeWidth(token) ==
    CASE token \in {"u8", "s8"} -> 1
      [] token \in {"u16", "s16", "f16"} -> 2
      [] token \in {"i32", "u32", "f32"} -> 4
      [] token \in {"s64", "u64", "f64"} -> 8

\* The token string of a TypeCode: the letter's token, after the marker's
\* token and one space when there is a marker.
TokensOf(code) ==
    IF Len(code) = 1 THEN imhex_keywords[code[1]]
    ELSE imhex_keywords[code[1]] \o " " \o imhex_keywords[code[2]]

\* C1: in every state reachable by pack and append calls, failed ones
\* included, every Packable has as many chunks as records without a count, and
\* its i-th chunk is the serialization of the i-th such record.
C1_ChunksMatchUncountedRecords ==
    \A p \in Packables :
        LET u == Uncounted(objs[p].metas)
        IN  /\ Len(objs[p].chunks) = Len(u)
            /\ \A i \in 1..Len(u) :
                   struct_pack(u[i].pattern, u[i].value, platform)
                       = Packed(objs[p].chunks[i])

\* C2: a pack call without a count whose value cannot be serialized fails
\* with the packing error (struct.error) carrying the caller and the field
\* name, has appended the record to metas and has left chunks, and every
\* earlier record, as they were.
C2_FailedPackCarriesContext ==
    (call.op = "pack" /\ call.meta.count = None /\ ~Serializable(call.meta))
    => /\ call.result = RaisedIn("struct.error", call.caller, call.meta.name)
       /\ objs[call.self].metas = Append(call.before.metas, call.meta)
       /\ objs[call.self].chunks = call.before.chunks

\* C3: a pack call with a count appends exactly its record to metas, leaves
\* chunks (and the rest of the Packable) as they were and returns without
\* error, whatever the pattern and the value.
C3_CountedPackOnlyRecords ==
    (call.op = "pack" /\ call.meta.count # None)
    => /\ call.result = ReturnedNone
       /\ objs[call.self]
              = [call.before EXCEPT !.metas = Append(@, call.meta)]

\* A pack call with a count whose value could not be serialized under its
\* pattern, on a Packable that already held a chunk.
C3_Witness ==
    /\ call.op = "pack"
    /\ call.meta.count # None
    /\ ~Serializable(call.meta)
    /\ call.before.chunks # <<>>
    /\ Len(objs[call.self].metas) = Len(call.before.metas) + 1

\* C4: appending a Packable that pack calls filled to another Packable
\* completes, and the receiver's chunks and metas are then its old ones
\* followed by the argument's.
C4_AppendConcatenates ==
    (call.op = "append" /\ call.arg \in Packables /\ call.arg # call.self
        /\ call.arg_before.metas # <<>>)
    => /\ call.result = ReturnedNone
       /\ objs[call.self].chunks
              = call.before.chunks \o call.arg_before.chunks
       /\ objs[call.self].metas
              = call.before.metas \o call.arg_before.metas

\* C5: append of an object that has a name attribute, a struct or a function,
\* named or not, fails with TypeError and leaves the receiver as it was.
C5_AppendNamedRefused ==
    (call.op = "append" /\ hasattr(call.arg_before, "name"))
    => /\ call.result = Raised("TypeError")
       /\ objs[call.self] = call.before

\* An append of a struct whose name is still None to a Packable that holds a
\* record and a chunk.
C5_Witness ==
    /\ call.op = "append"
    /\ call.arg = "S"
    /\ call.arg_before.name = None
    /\ call.before.chunks # <<>>
    /\ call.result.type = "TypeError"

\* C6: chars_to_imhex of a TypeCode returns the letter's token, after the
\* marker's token and one space when the code has a marker; the result is
\* that function of the argument in every call, the first and the repeated.
C6_TypeCodeTranslates ==
    (call.op = "chars_to_imhex" /\ call.struct_pattern \in TypeCodes)
    => call.result = Returned(TokensOf(call.struct_pattern))

\* chars_to_imhex(">H") has returned "be u16".
C6_Witness ==
    /\ call.op = "chars_to_imhex"
    /\ call.struct_pattern = <<">", "H">>
    /\ call.result = Returned("be u16")

\* C7: chars_to_imhex of a string that is no TypeCode fails: with KeyError
\* when a lookup misses (one character, or a marker and one character), with
\* NotImplementedError for any other shape; it returns no token string.
C7_NonTypeCodeRejected ==
    (call.op = "chars_to_imhex" /\ call.struct_pattern \notin TypeCodes)
    => LET cs == call.struct_pattern
           looked_up == Len(cs) = 1 \/ (Len(cs) = 2 /\ cs[1] \in Markers)
       IN  call.result
               = Raised(IF looked_up THEN "KeyError" ELSE "NotImplementedError")

\* C8: a record that pack recorded with a count renders as its type tokens,
\* its name and "[count];", with no tooltip, whatever its value.
C8_CountedRendersWithoutValue ==
    (call.op = "meta_to_imhex" /\ call.meta.count # None)
    => LET token == chars_to_imhex(call.meta.pattern)
       IN  /\ token.type = "return"
           /\ call.result
                  = Returned(token.val \o " " \o call.meta.name \o "["
                             \o IntStr(call.meta.count[1]) \o "];")

\* C9: a record that pack recorded without a count and serialized renders:
\* meta_to_imhex returns, and for an int value what it returns is the type
\* tokens, the name and the tooltip holding the number.
C9_PackedRendersWithValue ==
    (call.op = "meta_to_imhex" /\ call.meta.count = None
        /\ Serializable(call.meta))
    => /\ call.result.type = "return"
       /\ call.meta.value.t = "int"
          => call.result.val
                 = chars_to_imhex(call.meta.pattern).val \o " "
                   \o call.meta.name \o " @ \"" \o IntStr(call.meta.value.n)
                   \o "\";"

\* C10: the chunk a successful pack call without a count appended for a
\* TypeCode is as long as the annotation type the table gives its letter.
C10_ChunkHasDeclaredWidth ==
    (call.op = "pack" /\ call.meta.count = None
        /\ call.meta.pattern \in TypeCodes /\ call.result.type = "return")
    => LET chunks == objs[call.self].chunks
           code == call.meta.pattern
       IN  Len(chunks[Len(chunks)])
               = TypeWidth(imhex_keywords[code[Len(code)]])

====
